---------------------------- MODULE Spec2Model ----------------------------
(***************************************************************************)
(* Model of src/health-check-server.py: a single-threaded HTTP server      *)
(* (socketserver.TCPServer + HealthCheckHandler) that runs an external     *)
(* probe with a 10 second timeout on GET / and GET /health, validates the  *)
(* probe's stdout as JSON and relays it, or answers with an error          *)
(* envelope.                                                               *)
(*                                                                         *)
(* Text is modelled as a sequence of one-character strings, so that        *)
(* strip / split / startswith / json.loads / json.dumps are computed       *)
(* character by character as Python computes them.                         *)
(***************************************************************************)
EXTENDS Integers, Sequences, FiniteSets, TLC

VARIABLES
    backlog,   \* connections queued on the listening socket (requests not yet accepted)
    cur,       \* the request the serve_forever thread is handling, or NoReq
    child,     \* the probe child process of the request in progress
    elapsed,   \* seconds since the child of the request in progress was started
    now,       \* wall clock, in seconds since the epoch
    last,      \* the last completed exchange (request, probe result, response)
    prev,      \* the exchange completed before last
    probe,     \* the probe's behaviour when it is deterministic, else AnyProbe
    serving    \* TRUE while serve_forever is running

vars == <<backlog, cur, child, elapsed, now, last, prev, probe, serving>>

-----------------------------------------------------------------------------
(* Bounds of the model *)

MaxBacklog == 1     \* requests waiting in the listen queue
MaxTime == 10      \* the wall clock stops advancing here (seconds)
Quantum == 5       \* seconds that pass in one Tick
MaxFrags == 3       \* fragments concatenated into a probe stdout (SpecHandler)

-----------------------------------------------------------------------------
(* Characters and text constants *)

NL == "\n"
TAB == "\t"
QUOTE == "\""
BACKSLASH == "\\"

\* the probe's invocation path, lines 24 and 38
PROBE_PATH == <<"/", "u", "s", "r", "/", "l", "o", "c", "a", "l", "/", "b", "i", "n", "/", "g", "l", "o", "b", "a", "l", "-", "h", "e", "a", "l", "t", "h", "-", "c", "h", "e", "c", "k", ".", "s", "h">>
\* the sentinel of line 34
EOF_MARK == <<"E", "O", "F">>
MSG_INVALID_JSON == <<"I", "n", "v", "a", "l", "i", "d", " ", "J", "S", "O", "N", " ", "o", "u", "t", "p", "u", "t", " ", "f", "r", "o", "m", " ", "h", "e", "a", "l", "t", "h", " ", "c", "h", "e", "c", "k">>
MSG_SCRIPT_FAILED == <<"H", "e", "a", "l", "t", "h", " ", "c", "h", "e", "c", "k", " ", "s", "c", "r", "i", "p", "t", " ", "f", "a", "i", "l", "e", "d", ":", " ">>
MSG_TIMED_OUT == <<"H", "e", "a", "l", "t", "h", " ", "c", "h", "e", "c", "k", " ", "t", "i", "m", "e", "d", " ", "o", "u", "t">>
MSG_ERROR == <<"H", "e", "a", "l", "t", "h", " ", "c", "h", "e", "c", "k", " ", "e", "r", "r", "o", "r", ":", " ">>
PONG == <<"p", "o", "n", "g">>
NOT_FOUND_BODY == <<"{", "\"", "e", "r", "r", "o", "r", "\"", ":", " ", "\"", "N", "o", "t", " ", "f", "o", "u", "n", "d", "\"", "}">>

\* str(e) of the exceptions the handler can see
ENOENT == <<"[", "E", "r", "r", "n", "o", " ", "2", "]", " ", "N", "o", " ", "s", "u", "c", "h", " ", "f", "i", "l", "e", " ", "o", "r", " ", "d", "i", "r", "e", "c", "t", "o", "r", "y", ":", " ", "'">> \o PROBE_PATH \o <<"'">>
EACCES == <<"[", "E", "r", "r", "n", "o", " ", "1", "3", "]", " ", "P", "e", "r", "m", "i", "s", "s", "i", "o", "n", " ", "d", "e", "n", "i", "e", "d", ":", " ", "'">> \o PROBE_PATH \o <<"'">>
EPIPE == <<"[", "E", "r", "r", "n", "o", " ", "3", "2", "]", " ", "B", "r", "o", "k", "e", "n", " ", "p", "i", "p", "e">>

-----------------------------------------------------------------------------
(* Python str operations *)

\* the whitespace str.strip() removes, within the model's alphabet
IsSpace(c) == c \in {" ", NL, TAB, "\r"}

RECURSIVE lstrip(_)
lstrip(s) ==
    IF s = <<>> THEN <<>>
    ELSE IF IsSpace(Head(s)) THEN lstrip(Tail(s)) ELSE s

RECURSIVE rstrip(_)
rstrip(s) ==
    IF s = <<>> THEN <<>>
    ELSE IF IsSpace(s[Len(s)]) THEN rstrip(SubSeq(s, 1, Len(s) - 1)) ELSE s

\* str.strip()
strip(s) == rstrip(lstrip(s))

\* str.startswith(p)
startswith(s, p) == Len(p) <= Len(s) /\ SubSeq(s, 1, Len(p)) = p

\* sub in s
contains(s, sub) ==
    \E i \in 1..(Len(s) - Len(sub) + 1) : SubSeq(s, i, i + Len(sub) - 1) = sub

\* s.split('\n'): always at least one (possibly empty) line
RECURSIVE split(_)
split(s) ==
    IF \A i \in 1..Len(s) : s[i] # NL THEN <<s>>
    ELSE LET k == CHOOSE i \in 1..Len(s) : s[i] = NL /\ \A j \in 1..(i - 1) : s[j] # NL
         IN <<SubSeq(s, 1, k - 1)>> \o split(SubSeq(s, k + 1, Len(s)))

\* '\n'.join(lines)
RECURSIVE join(_)
join(lines) ==
    IF lines = <<>> THEN <<>>
    ELSE IF Len(lines) = 1 THEN lines[1]
    ELSE lines[1] \o <<NL>> \o join(Tail(lines))

-----------------------------------------------------------------------------
(* json.loads, as far as line 44 uses it: does the text parse?            *)
(* Positions are 1-based; a scanner returns the position after what it    *)
(* read, or 0 where Python raises JSONDecodeError.                        *)

\* s[i:i+1]
At(s, i) == IF i \in 1..Len(s) THEN s[i] ELSE ""

DIGITS == {"0", "1", "2", "3", "4", "5", "6", "7", "8", "9"}
HEXDIGITS == DIGITS \cup {"a", "b", "c", "d", "e", "f", "A", "B", "C", "D", "E", "F"}

\* json.decoder.WHITESPACE.match(s, i).end()
RECURSIVE skip_ws(_, _)
skip_ws(s, i) == IF At(s, i) \in {" ", TAB, NL, "\r"} THEN skip_ws(s, i + 1) ELSE i

RECURSIVE skip_digits(_, _)
skip_digits(s, i) == IF At(s, i) \in DIGITS THEN skip_digits(s, i + 1) ELSE i

\* json.decoder.STRINGCHUNK: the position of the next quote, backslash or
\* control character at or after i, 0 when there is none
next_terminator(s, i) ==
    LET T == {j \in i..Len(s) : s[j] \in {QUOTE, BACKSLASH, NL, TAB, "\r"}} IN
    IF T = {} THEN 0 ELSE CHOOSE j \in T : \A k \in T : j <= k

\* json.decoder.py_scanstring in strict mode, from the character after the
\* opening quote
RECURSIVE scanstring(_, _)
scanstring(s, i) ==
    LET j == next_terminator(s, i) IN
    IF j = 0 THEN 0
    ELSE IF s[j] = QUOTE THEN j + 1
    ELSE IF s[j] # BACKSLASH THEN 0
    ELSE IF At(s, j + 1) \in {QUOTE, BACKSLASH, "/", "b", "f", "n", "r", "t"}
         THEN scanstring(s, j + 2)
    ELSE IF At(s, j + 1) = "u" /\ \A k \in 2..5 : At(s, j + k) \in HEXDIGITS
         THEN scanstring(s, j + 6)
    ELSE 0

\* json.scanner.NUMBER_RE: (-?(?:0|[1-9]\d*))(\.\d+)?([eE][-+]?\d+)?
match_number(s, i) ==
    LET p == IF At(s, i) = "-" THEN i + 1 ELSE i
        q == IF At(s, p) = "0" THEN p + 1
             ELSE IF At(s, p) \in DIGITS THEN skip_digits(s, p)
             ELSE 0
        r == IF q # 0 /\ At(s, q) = "." /\ At(s, q + 1) \in DIGITS
             THEN skip_digits(s, q + 1) ELSE q
        x == IF At(s, r + 1) \in {"+", "-"} THEN r + 2 ELSE r + 1
    IN  IF q = 0 THEN 0
        ELSE IF At(s, r) \in {"e", "E"} /\ At(s, x) \in DIGITS THEN skip_digits(s, x)
        ELSE r

literal_at(s, i, word) == i + Len(word) - 1 <= Len(s) /\ SubSeq(s, i, i + Len(word) - 1) = word

RECURSIVE scan_once(_, _)
RECURSIVE JSONMembers(_, _)
RECURSIVE JSONElements(_, _)

\* json.decoder.JSONObject, from the character after "{"
JSONObject(s, i) ==
    LET j == skip_ws(s, i) IN
    IF At(s, j) = "}" THEN j + 1 ELSE JSONMembers(s, j)

\* the while loop of JSONObject, at the opening quote of a key
JSONMembers(s, i) ==
    IF At(s, i) # QUOTE THEN 0
    ELSE LET k == scanstring(s, i + 1)
             c == skip_ws(s, k)
             v == scan_once(s, skip_ws(s, c + 1))
             e == skip_ws(s, v)
         IN  IF k = 0 \/ At(s, c) # ":" THEN 0
             ELSE IF v = 0 THEN 0
             ELSE IF At(s, e) = "}" THEN e + 1
             ELSE IF At(s, e) = "," THEN JSONMembers(s, skip_ws(s, e + 1))
             ELSE 0

\* json.decoder.JSONArray, from the character after "["
JSONArray(s, i) ==
    LET j == skip_ws(s, i) IN
    IF At(s, j) = "]" THEN j + 1 ELSE JSONElements(s, j)

JSONElements(s, i) ==
    LET v == scan_once(s, i)
        e == skip_ws(s, v)
    IN  IF v = 0 THEN 0
        ELSE IF At(s, e) = "]" THEN e + 1
        ELSE IF At(s, e) = "," THEN JSONElements(s, skip_ws(s, e + 1))
        ELSE 0

\* json.scanner.py_make_scanner._scan_once
scan_once(s, i) ==
    LET c == At(s, i) IN
    IF c = "" THEN 0
    ELSE IF c = QUOTE THEN scanstring(s, i + 1)
    ELSE IF c = "{" THEN JSONObject(s, i + 1)
    ELSE IF c = "[" THEN JSONArray(s, i + 1)
    ELSE IF literal_at(s, i, <<"n", "u", "l", "l">>) THEN i + 4
    ELSE IF literal_at(s, i, <<"t", "r", "u", "e">>) THEN i + 4
    ELSE IF literal_at(s, i, <<"f", "a", "l", "s", "e">>) THEN i + 5
    ELSE IF match_number(s, i) # 0 THEN match_number(s, i)
    ELSE IF literal_at(s, i, <<"N", "a", "N">>) THEN i + 3
    ELSE IF literal_at(s, i, <<"I", "n", "f", "i", "n", "i", "t", "y">>) THEN i + 8
    ELSE IF literal_at(s, i, <<"-", "I", "n", "f", "i", "n", "i", "t", "y">>) THEN i + 9
    ELSE 0

\* json.loads(s) returns (TRUE) or raises JSONDecodeError (FALSE)
json_loads(s) ==
    LET e == scan_once(s, skip_ws(s, 1)) IN
    e # 0 /\ skip_ws(s, e) = Len(s) + 1

-----------------------------------------------------------------------------
(* json.dumps of the error envelope, line 86 *)

\* json.encoder.ESCAPE_ASCII on one character
escape_char(c) ==
    IF c = QUOTE THEN <<BACKSLASH, QUOTE>>
    ELSE IF c = BACKSLASH THEN <<BACKSLASH, BACKSLASH>>
    ELSE IF c = NL THEN <<BACKSLASH, "n">>
    ELSE IF c = TAB THEN <<BACKSLASH, "t">>
    ELSE IF c = "\r" THEN <<BACKSLASH, "r">>
    ELSE <<c>>

\* json.encoder.encode_basestring_ascii
RECURSIVE escape_body(_)
escape_body(s) == IF s = <<>> THEN <<>> ELSE escape_char(Head(s)) \o escape_body(Tail(s))

dumps_str(s) == <<QUOTE>> \o escape_body(s) \o <<QUOTE>>

DigitChar(d) == <<"0", "1", "2", "3", "4", "5", "6", "7", "8", "9">>[d + 1]

\* int.__repr__ of a non-negative integer
RECURSIVE dumps_int(_)
dumps_int(n) == IF n < 10 THEN <<DigitChar(n)>> ELSE dumps_int(n \div 10) \o <<DigitChar(n % 10)>>

\* json.dumps({"status": ..., "message": ..., "timestamp": ...}), keys in insertion order
json_dumps(env) ==
    <<"{", QUOTE, "s", "t", "a", "t", "u", "s", QUOTE, ":", " ">> \o dumps_str(env.status)
    \o <<",", " ", QUOTE, "m", "e", "s", "s", "a", "g", "e", QUOTE, ":", " ">> \o dumps_str(env.message)
    \o <<",", " ", QUOTE, "t", "i", "m", "e", "s", "t", "a", "m", "p", QUOTE, ":", " ">> \o dumps_int(env.timestamp)
    \o <<"}">>

-----------------------------------------------------------------------------
(* The handler's output side: BaseHTTPRequestHandler's header buffer and   *)
(* the socket file wfile.  fails is the set of wfile.write calls (by     *)
(* ordinal within the request) on which the socket raises OSError.         *)

Item(kind, code, ctype, data) == [kind |-> kind, code |-> code, ctype |-> ctype, data |-> data]

\* the handler before it has done anything
NewHandler ==
    [buf   |-> <<>>,    \* _headers_buffer
     wire  |-> <<>>,    \* what wfile.write has put on the socket
     nw    |-> 0,       \* wfile.write calls so far
     nresp |-> 0,       \* send_response calls so far (responses begun)
     nrun  |-> 0,       \* subprocess.run calls so far (probes started)
     nfail |-> 0,       \* wfile.write calls that raised
     env   |-> [status |-> <<>>, message |-> <<>>, timestamp |-> 0],
                        \* the error_response dict of send_error_response
     exc   |-> "",      \* the exception propagating, "" for none
     excmsg |-> <<>>]   \* its str()

Raise(h, type, msg) == [h EXCEPT !.exc = type, !.excmsg = msg]
Caught(h) == [h EXCEPT !.exc = "", !.excmsg = <<>>]

\* self.send_response(code): the status line goes to the header buffer
send_response(h, code) ==
    [h EXCEPT !.buf = Append(@, Item("status", code, "", <<>>)), !.nresp = @ + 1]

\* self.send_header('Content-Type', ctype)
send_header(h, ctype) == [h EXCEPT !.buf = Append(@, Item("header", 0, ctype, <<>>))]

\* self.end_headers(): the blank line is buffered, then the buffer is written
\* and cleared; the buffer is kept when the write raises
end_headers(h, fails) ==
    LET b == Append(h.buf, Item("end", 0, "", <<>>))
        n == h.nw + 1
    IN  IF n \in fails
        THEN Raise([h EXCEPT !.buf = b, !.nw = n, !.nfail = @ + 1], "OSError", EPIPE)
        ELSE [h EXCEPT !.buf = <<>>, !.nw = n, !.wire = @ \o b]

\* self.wfile.write(data)
wfile_write(h, data, fails) ==
    LET n == h.nw + 1 IN
    IF n \in fails
    THEN Raise([h EXCEPT !.nw = n, !.nfail = @ + 1], "OSError", EPIPE)
    ELSE [h EXCEPT !.nw = n, !.wire = Append(@, Item("body", 0, "", data))]

STATUS_ERROR == <<"e", "r", "r", "o", "r">>

\* int(time.time() * 1000), with the clock in whole seconds
timestamp_ms(t) == t * 1000

\* send_error_response putting the time of the error into the message as well
send_error_response_stamped(h, message, t, fails) ==
    LET h1 == end_headers(send_header(send_response(h, 500), "application/json"), fails)
        error_response == [status |-> STATUS_ERROR,
                           message |-> message \o <<" ">> \o dumps_int(timestamp_ms(t)),
                           timestamp |-> timestamp_ms(t)]
    IN  IF h1.exc # "" THEN h1
        ELSE wfile_write([h1 EXCEPT !.env = error_response], json_dumps(error_response), fails)

\* HealthCheckHandler.send_error_response
send_error_response(h, message, t, fails) ==
    LET h1 == end_headers(send_header(send_response(h, 500), "application/json"), fails)
        error_response == [status |-> STATUS_ERROR, message |-> message,
                           timestamp |-> timestamp_ms(t)]
    IN  IF h1.exc # "" THEN h1
        ELSE wfile_write([h1 EXCEPT !.env = error_response], json_dumps(error_response), fails)

-----------------------------------------------------------------------------
(* What subprocess.run gave: a CompletedProcess, TimeoutExpired, or an     *)
(* OSError from starting the child.                                        *)

Exited(rc, out, err) == [kind |-> "exit", rc |-> rc, out |-> out, err |-> err]
TimedOut == [kind |-> "timeout", rc |-> 0, out |-> <<>>, err |-> <<>>]
LaunchError(msg) == [kind |-> "launch_error", rc |-> 0, out |-> <<>>, err |-> msg]

\* timeout=10 of line 27, in seconds
TIMEOUT == 10

\* subprocess.run re-raising TimeoutExpired without killing the child
child_after_run_no_kill(kind) ==
    IF kind = "launch_error" THEN "none"
    ELSE IF kind = "timeout" THEN "running"
    ELSE "reaped"

\* the child when subprocess.run returns or raises: run() waits for a child
\* that exited, and on timeout kills it and waits for it before re-raising
child_after_run(kind) ==
    IF kind = "launch_error" THEN "none" ELSE "reaped"

\* lines 36-39: the lines that do not start with the probe's path
RECURSIVE json_lines(_)
json_lines(lines) ==
    IF lines = <<>> THEN <<>>
    ELSE IF ~startswith(Head(lines), PROBE_PATH)
         THEN <<Head(lines)>> \o json_lines(Tail(lines))
         ELSE json_lines(Tail(lines))

\* the cleaning without the removal of the probe's own lines
clean_output_no_filter(stdout) == strip(stdout)

\* lines 32-40: the cleaned output
clean_output(stdout) ==
    LET output == strip(stdout) IN
    IF contains(output, EOF_MARK)
    THEN strip(join(json_lines(split(output))))
    ELSE output

\* forwarding without the json.loads of line 44
validate_and_forward_unchecked(h, output, t, fails) ==
    LET h1 == end_headers(send_header(send_response(h, 200), "application/json"), fails)
    IN  IF h1.exc # "" THEN h1 ELSE wfile_write(h1, output, fails)

\* lines 43-50: validate, then forward the text or report it
validate_and_forward(h, output, t, fails) ==
    IF json_loads(output)
    THEN LET h1 == end_headers(send_header(send_response(h, 200), "application/json"), fails)
         IN  IF h1.exc # "" THEN h1 ELSE wfile_write(h1, output, fails)
    ELSE send_error_response(h, MSG_INVALID_JSON, t, fails)

\* line 30 testing returncode > 0: a child killed by a signal counts as a success
on_completed_positive_only(h, result, t, fails) ==
    IF ~(result.rc > 0)
    THEN validate_and_forward(h, clean_output(result.out), t, fails)
    ELSE send_error_response(h, MSG_SCRIPT_FAILED \o result.err, t, fails)

\* lines 30-52: what follows a subprocess.run that returned
on_completed(h, result, t, fails) ==
    IF result.rc = 0
    THEN validate_and_forward(h, clean_output(result.out), t, fails)
    ELSE send_error_response(h, MSG_SCRIPT_FAILED \o result.err, t, fails)

\* lines 21-52: the try block
try_probe(h, result, t, fails) ==
    LET h1 == [h EXCEPT !.nrun = @ + 1] IN
    IF result.kind = "launch_error" THEN Raise(h1, "OSError", result.err)
    ELSE IF result.kind = "timeout" THEN Raise(h1, "TimeoutExpired", <<>>)
    ELSE on_completed(h1, result, t, fails)

\* the except clauses without the one of lines 56-57
except_clauses_no_catch_all(h, t, fails) ==
    IF h.exc = "TimeoutExpired"
    THEN send_error_response(Caught(h), MSG_TIMED_OUT, t, fails)
    ELSE h

\* lines 54-57: the except clauses, for the handler as the try block left it
except_clauses(h, t, fails) ==
    IF h.exc = "TimeoutExpired"
    THEN send_error_response(Caught(h), MSG_TIMED_OUT, t, fails)
    ELSE IF h.exc # ""
    THEN send_error_response(Caught(h), MSG_ERROR \o h.excmsg, t, fails)
    ELSE h

\* lines 21-57: the try block with its except clauses
health_check(h, result, t, fails) ==
    except_clauses(try_probe(h, result, t, fails), t, fails)

\* lines 59-63
ping(h, fails) ==
    LET h1 == end_headers(send_header(send_response(h, 200), "text/plain"), fails)
    IN  IF h1.exc # "" THEN h1 ELSE wfile_write(h1, PONG, fails)

\* lines 65-69
not_found(h, fails) ==
    LET h1 == end_headers(send_header(send_response(h, 404), "application/json"), fails)
    IN  IF h1.exc # "" THEN h1 ELSE wfile_write(h1, NOT_FOUND_BODY, fails)

\* do_GET with /ping listed among the health paths of line 20
do_GET_ping_probed(path, result, t, fails) ==
    IF path \in {"/", "/health", "/ping"} THEN health_check(NewHandler, result, t, fails)
    ELSE not_found(NewHandler, fails)

\* HealthCheckHandler.do_GET
do_GET(path, result, t, fails) ==
    IF path \in {"/", "/health"} THEN health_check(NewHandler, result, t, fails)
    ELSE IF path = "/ping" THEN ping(NewHandler, fails)
    ELSE not_found(NewHandler, fails)

\* HealthCheckHandler.do_OPTIONS
do_OPTIONS(fails) == end_headers(send_response(NewHandler, 200), fails)

UNSUPPORTED_METHOD == <<"U", "n", "s", "u", "p", "p", "o", "r", "t", "e", "d", " ", "m", "e", "t", "h", "o", "d">>

\* BaseHTTPRequestHandler.send_error(501) for a method the class has no do_ for
unsupported_method(fails) ==
    LET h1 == end_headers(send_header(send_response(NewHandler, 501), "text/html;charset=utf-8"), fails)
    IN  IF h1.exc # "" THEN h1 ELSE wfile_write(h1, UNSUPPORTED_METHOD, fails)

\* the methods HealthCheckHandler defines a do_ method for
HandledMethods == {"GET", "OPTIONS"}

\* BaseHTTPRequestHandler.handle_one_request: dispatch on 'do_' + command
handle_one_request(req, result, t, fails) ==
    IF req.method \notin HandledMethods THEN unsupported_method(fails)
    ELSE IF req.method = "GET" THEN do_GET(req.path, result, t, fails)
    ELSE do_OPTIONS(fails)

-----------------------------------------------------------------------------
(* Requests and probe behaviours the model draws from *)

Req(method, path) == [method |-> method, path |-> path]

\* requests of the server specification: every route of the handler, a path
\* that only resembles one, a method the handler lacks
Requests ==
    {Req("GET", "/"), Req("GET", "/health"), Req("GET", "/ping"),
     Req("GET", "/health?x=1"), Req("OPTIONS", "/health"), Req("POST", "/health")}

\* requests of the handler specification
Methods == {"GET", "OPTIONS", "POST", "PUT", "DELETE", "HEAD"}
Paths == {"/", "/health", "/ping", "/health/", "/health?x=1", "/pin", "/unknown-path"}
AllRequests == [method : Methods, path : Paths]

NoReq == [method |-> "", path |-> ""]
NoResult == [kind |-> "none", rc |-> 0, out |-> <<>>, err |-> <<>>]
NoExchange == [req |-> NoReq, result |-> NoResult, resp |-> NewHandler, child |-> "none"]

\* the probe is not constrained to one behaviour
AnyProbe == [kind |-> "any", rc |-> 0, out |-> <<>>, err |-> <<>>]

STATUS_OK_JSON == <<"{", QUOTE, "s", "t", "a", "t", "u", "s", QUOTE, ":", QUOTE, "o", "k", QUOTE, "}">>
\* the shell's here-document warning: starts with the script's path, holds EOF
WARN_LINE == PROBE_PATH \o <<":", " ", "w", "a", "n", "t", "e", "d", " ", "E", "O", "F">>
EOF_STRING == <<QUOTE, "E", "O", "F", QUOTE>>
STDERR_A == <<"c", "u", "r", "l", ":", " ", "(", "7", ")">>
STDERR_B == <<"d", "b", " ", QUOTE, "d", "o", "w", "n", QUOTE, NL>>

Fragments == {STATUS_OK_JSON, WARN_LINE, PROBE_PATH, EOF_STRING, <<NL>>, <<" ">>, <<" ", "1">>, <<"x">>}

\* the texts made of at most n fragments
RECURSIVE Texts(_)
Texts(n) ==
    IF n = 0 THEN {<<>>}
    ELSE LET shorter == Texts(n - 1) IN
         shorter \cup {t \o f : t \in shorter, f \in Fragments}

\* probe results of the server specification: a few of each kind
ExitResults ==
    {Exited(0, STATUS_OK_JSON, <<>>), Exited(0, <<"x">>, STDERR_A),
     Exited(1, STATUS_OK_JSON, STDERR_A)}
LaunchErrors == {LaunchError(ENOENT), LaunchError(EACCES)}

\* probe results of the handler specification: every text of MaxFrags fragments
WideResults ==
    {Exited(0, out, <<>>) : out \in Texts(MaxFrags)}
    \cup {Exited(rc, out, err) : rc \in {1, 2, -9}, out \in {<<>>, STATUS_OK_JSON},
                                 err \in {<<>>, STDERR_A, STDERR_B}}
    \cup {TimedOut} \cup LaunchErrors

\* the wfile.write calls of one request that may raise
FailSets == SUBSET {1, 2, 3}

-----------------------------------------------------------------------------
(* The server: socketserver.TCPServer.serve_forever in one thread *)

\* the results subprocess.run can give in the server specification
Results == ExitResults \cup LaunchErrors \cup {TimedOut, NoResult}

\* the values the model's wall clock takes
Times == {t \in 0..MaxTime : t % Quantum = 0}

\* handle_one_request on every input of the server specification, tabulated
Handled ==
    [req \in Requests, result \in Results, t \in Times, fails \in FailSets |->
        handle_one_request(req, result, t, fails)] @@ <<>>

\* for every request, whether handling it calls subprocess.run, tabulated
RunsProbe ==
    [req \in AllRequests |-> handle_one_request(req, TimedOut, 0, {}).nrun > 0] @@ <<>>

\* whether handling the request calls subprocess.run
StartsProbe(req) == RunsProbe[req]

\* the record of an exchange: the request, what subprocess.run gave, what the
\* handler did, and the child process when the handler ended
Exchange(req, result, h) ==
    [req |-> req, result |-> result, resp |-> h,
     child |-> IF h.nrun = 0 THEN "none" ELSE child_after_run(result.kind)]

\* BaseServer._handle_request_noblock: an Exception out of the handler goes
\* to handle_error and the loop goes on; anything else ends serve_forever
survives(exc) == exc \in {"", "OSError", "TimeoutExpired", "JSONDecodeError"}

\* the handler has run to its end, leaving the exchange x
Finished(x) ==
    /\ last' = x
    /\ child' = IF x.child = "reaped" THEN "none" ELSE x.child
    /\ serving' = (serving /\ survives(x.resp.exc))
    /\ cur' = NoReq
    /\ elapsed' = 0

\* the handler runs to its end for req, subprocess.run having given result
Finish(req, result) ==
    \E fails \in FailSets :
        Finished(Exchange(req, result, Handled[req, result, now, fails]))

TypeOK ==
    /\ backlog \in Seq(Requests) /\ Len(backlog) <= MaxBacklog
    /\ cur \in Requests \cup {NoReq}
    /\ child \in {"none", "running", "zombie"}
    /\ elapsed \in 0..(TIMEOUT + Quantum)
    /\ now \in 0..MaxTime
    /\ serving \in BOOLEAN

Init ==
    /\ backlog = <<>>
    /\ cur = NoReq
    /\ child = "none"
    /\ elapsed = 0
    /\ now = 0
    /\ last = NoExchange
    /\ prev = NoExchange
    /\ probe = AnyProbe
    /\ serving = TRUE

\* a client connects and sends a request; the kernel queues the connection
Arrive(req) ==
    /\ Len(backlog) < MaxBacklog
    /\ backlog' = Append(backlog, req)
    /\ UNCHANGED <<cur, child, elapsed, now, last, prev, probe, serving>>

\* serve_forever accepts the next connection and handles a request that
\* needs no probe, to its end
AcceptDirect ==
    /\ serving /\ cur = NoReq /\ backlog # <<>>
    /\ ~StartsProbe(Head(backlog))
    /\ backlog' = Tail(backlog)
    /\ Finish(Head(backlog), NoResult)
    /\ UNCHANGED <<now, prev, probe>>

\* serve_forever accepts the next connection; the handler starts the probe
\* and blocks in subprocess.run
AcceptProbe ==
    /\ serving /\ cur = NoReq /\ backlog # <<>>
    /\ StartsProbe(Head(backlog))
    /\ backlog' = Tail(backlog)
    /\ cur' = Head(backlog)
    /\ child' = "running"
    /\ elapsed' = 0
    /\ UNCHANGED <<now, last, prev, probe, serving>>

\* serve_forever accepts the next connection; subprocess.run cannot start the child
AcceptLaunchError(result) ==
    /\ serving /\ cur = NoReq /\ backlog # <<>>
    /\ StartsProbe(Head(backlog))
    /\ backlog' = Tail(backlog)
    /\ Finish(Head(backlog), result)
    /\ UNCHANGED <<now, prev, probe>>

\* the child exits before the deadline; the handler goes on to its end
ProbeExit(result) ==
    /\ cur # NoReq /\ child = "running" /\ elapsed < TIMEOUT
    /\ Finish(cur, result)
    /\ UNCHANGED <<backlog, now, prev, probe>>

\* the deadline passes with the child still running
ProbeTimeout ==
    /\ cur # NoReq /\ child = "running" /\ elapsed >= TIMEOUT
    /\ Finish(cur, TimedOut)
    /\ UNCHANGED <<backlog, now, prev, probe>>

\* time passes; the model's wall clock stops at MaxTime, the timer of a
\* running child does not; a deadline that has passed is acted on first
Tick ==
    /\ now + Quantum <= MaxTime \/ child = "running"
    /\ ~(child = "running" /\ elapsed >= TIMEOUT)
    /\ now' = IF now + Quantum <= MaxTime THEN now + Quantum ELSE now
    /\ elapsed' = IF child = "running" THEN elapsed + Quantum ELSE elapsed
    /\ UNCHANGED <<backlog, cur, child, last, prev, probe, serving>>

Next ==
    \/ \E req \in Requests : Arrive(req)
    \/ AcceptDirect
    \/ AcceptProbe
    \/ \E result \in LaunchErrors : AcceptLaunchError(result)
    \/ \E result \in ExitResults : ProbeExit(result)
    \/ ProbeTimeout
    \/ Tick

Spec == Init /\ [][Next]_vars

-----------------------------------------------------------------------------
(* The handler on its own: one request, any probe result, any socket *)

HandleOne(req, result, fails) ==
    /\ last = NoExchange
    /\ last' = Exchange(req, result, handle_one_request(req, result, now, fails))
    /\ UNCHANGED <<backlog, cur, child, elapsed, now, prev, probe, serving>>

NextHandler ==
    \E req \in AllRequests, fails \in FailSets :
        \E result \in (IF StartsProbe(req) THEN WideResults ELSE {NoResult}) :
            HandleOne(req, result, fails)

SpecHandler == Init /\ [][NextHandler]_vars

-----------------------------------------------------------------------------
(* Repeated requests against a probe that behaves the same way every time; *)
(* the socket never fails.  The last two exchanges are kept.               *)

InitRepeat ==
    /\ backlog = <<>>
    /\ cur = NoReq
    /\ child = "none"
    /\ elapsed = 0
    /\ now = 0
    /\ last = NoExchange
    /\ prev = NoExchange
    /\ probe \in ExitResults \cup LaunchErrors \cup {TimedOut}
    /\ serving = TRUE

ServeRepeat(req) ==
    LET result == IF StartsProbe(req) THEN probe ELSE NoResult IN
    /\ serving
    /\ last' = Exchange(req, result, Handled[req, result, now, {}])
    /\ prev' = last
    /\ UNCHANGED <<backlog, cur, child, elapsed, now, probe, serving>>

NextRepeat ==
    \/ \E req \in Requests : ServeRepeat(req)
    \/ Tick

SpecRepeat == InitRepeat /\ [][NextRepeat]_vars

-----------------------------------------------------------------------------
(* Vocabulary of the properties *)

\* one complete HTTP response on the socket: status line, Content-Type,
\* blank line, body
Response(code, ctype, body) ==
    <<Item("status", code, "", <<>>), Item("header", 0, ctype, <<>>),
      Item("end", 0, "", <<>>), Item("body", 0, "", body)>>

\* an exchange took place
Done(x) == x.req # NoReq

\* every write of the exchange reached the socket
Delivered(x) == x.resp.nfail = 0

IsHealthRequest(req) == req.method = "GET" /\ req.path \in {"/", "/health"}

StatusLines(x) == {i \in 1..Len(x.resp.wire) : x.resp.wire[i].kind = "status"}

\* the status code and the body of a delivered response
StatusOf(x) == x.resp.wire[1].code
BodyOf(x) ==
    LET w == x.resp.wire IN
    IF w # <<>> /\ w[Len(w)].kind = "body" THEN w[Len(w)].data ELSE <<>>

\* the response is exactly one status 500 with the JSON text of an envelope
\* {status: "error", message, timestamp} carrying this message
IsErrorEnvelope(x, message) ==
    /\ x.resp.wire = Response(500, "application/json", json_dumps(x.resp.env))
    /\ x.resp.env.status = <<"e", "r", "r", "o", "r">>
    /\ x.resp.env.message = message
    /\ x.resp.env.timestamp \in Nat
    /\ json_loads(BodyOf(x))

NotProbeLine(line) == ~startswith(line, PROBE_PATH)

\* the cleaning as the specification words it
Cleaned(stdout) ==
    LET stripped == strip(stdout) IN
    IF contains(stripped, EOF_MARK)
    THEN strip(join(SelectSeq(split(stripped), NotProbeLine)))
    ELSE stripped

ExitedZero(x) == IsHealthRequest(x.req) /\ x.result.kind = "exit" /\ x.result.rc = 0

-----------------------------------------------------------------------------
(* Properties *)

\* C1: while a probe is running, a GET /ping that has arrived can be taken up
\* and answered at once, without waiting for the probe to exit or time out.
C1_PingNotBlockedByProbe ==
    (child = "running" /\ backlog # <<>> /\ Head(backlog) = Req("GET", "/ping"))
        => ENABLED AcceptDirect

\* C2: GET /ping is answered with status 200, text/plain and the body pong,
\* and handling it never starts the probe.
C2_PingPong ==
    last.req = Req("GET", "/ping") =>
        /\ last.resp.nrun = 0
        /\ last.child = "none"
        /\ last.resp.nresp = 1
        /\ Delivered(last) => last.resp.wire = Response(200, "text/plain", PONG)

C2_Witness ==
    /\ last.req = Req("GET", "/ping")
    /\ Delivered(last)
    /\ BodyOf(last) = PONG

\* C3: when the probe is still running at the timeout, the response is status
\* 500 with the message "Health check timed out", and the child has been
\* killed and reaped: no child is left once the handler has ended.
C3_TimeoutReaped ==
    /\ cur = NoReq => child = "none"
    /\ last.result.kind = "timeout" =>
        /\ IsHealthRequest(last.req)
        /\ last.child = "reaped"
        /\ Delivered(last) => IsErrorEnvelope(last, MSG_TIMED_OUT)

C3_Witness ==
    /\ last.result.kind = "timeout"
    /\ Delivered(last)
    /\ StatusOf(last) = 500
    /\ cur = NoReq

\* C4: when the probe exits 0 and its cleaned stdout (stripped; if it holds
\* EOF, the lines starting with the probe's path removed, re-joined and
\* stripped again) parses as JSON, the response is status 200,
\* application/json, with exactly the cleaned text as its body.
C4_CleanedPassthrough ==
    (ExitedZero(last) /\ Delivered(last)) =>
        /\ json_loads(Cleaned(last.result.out)) =>
              last.resp.wire = Response(200, "application/json", Cleaned(last.result.out))
        /\ last.result.out = STATUS_OK_JSON => BodyOf(last) = STATUS_OK_JSON

C4_Witness ==
    /\ ExitedZero(last) /\ Delivered(last)
    /\ last.result.out = WARN_LINE \o <<NL>> \o STATUS_OK_JSON
    /\ StatusOf(last) = 200
    /\ BodyOf(last) = STATUS_OK_JSON

\* C5: for every probe exit code other than 0 the response is status 500 with
\* an error envelope whose message contains the probe's stderr, whatever the
\* probe wrote to stdout.
C5_NonZeroExit ==
    (IsHealthRequest(last.req) /\ last.result.kind = "exit" /\ last.result.rc # 0
        /\ Delivered(last)) =>
        /\ IsErrorEnvelope(last, last.resp.env.message)
        /\ contains(last.resp.env.message, last.result.err)

C5_Witness ==
    /\ IsHealthRequest(last.req) /\ last.result.kind = "exit" /\ last.result.rc < 0
    /\ last.result.out = STATUS_OK_JSON /\ last.result.err = STDERR_B
    /\ Delivered(last)
    /\ StatusOf(last) = 500

\* C6: when the probe exits 0 and its cleaned stdout does not parse as JSON
\* (empty output included), the response is status 500 with the message
\* "Invalid JSON output from health check", and no 200 is sent.
C6_InvalidOutput ==
    (ExitedZero(last) /\ ~json_loads(Cleaned(last.result.out))) =>
        /\ \A i \in StatusLines(last) : last.resp.wire[i].code = 500
        /\ Delivered(last) => IsErrorEnvelope(last, MSG_INVALID_JSON)

C6_Witness ==
    /\ ExitedZero(last) /\ Delivered(last)
    /\ last.result.out = <<>>
    /\ StatusOf(last) = 500

\* C7: every request other than GET /, GET /health, GET /ping and OPTIONS
\* gets status 404, application/json, {"error": "Not found"}, and starts no
\* probe; this covers other methods (POST, PUT, DELETE) on any path.
C7_EverythingElseNotFound ==
    (Done(last) /\ Delivered(last) /\ last.req.method # "OPTIONS"
        /\ last.req \notin {Req("GET", "/"), Req("GET", "/health"), Req("GET", "/ping")}) =>
        /\ last.resp.wire = Response(404, "application/json", NOT_FOUND_BODY)
        /\ last.resp.nrun = 0

\* C8 as stated: two identical requests against a probe that behaves the same
\* way get identical status codes and identical bodies, error envelopes included.
C8_IdenticalResponses ==
    (Done(prev) /\ prev.req = last.req) =>
        /\ StatusOf(prev) = StatusOf(last)
        /\ BodyOf(prev) = BodyOf(last)

\* C8 (amended): two identical requests against a probe that behaves the same
\* way get identical status codes; bodies other than error envelopes are
\* identical, and two error envelopes have the same status and message fields
\* and differ at most in their timestamp.
C8_IdenticalButTimestamp ==
    (Done(prev) /\ prev.req = last.req) =>
        /\ StatusOf(prev) = StatusOf(last)
        /\ StatusOf(last) # 500 => BodyOf(prev) = BodyOf(last)
        /\ StatusOf(last) = 500 =>
            /\ IsErrorEnvelope(prev, last.resp.env.message)
            /\ IsErrorEnvelope(last, prev.resp.env.message)

C8_Witness ==
    /\ Done(prev) /\ prev.req = last.req
    /\ StatusOf(last) = 500
    /\ prev.resp.env.timestamp # last.resp.env.timestamp
    /\ BodyOf(prev) # BodyOf(last)

\* C9: a failure while handling a request (the probe cannot be started, times
\* out, exits non-zero, prints no JSON; the route is unknown) becomes a JSON
\* error response for that request and never ends the server, which goes on
\* accepting; a probe that cannot be started yields status 500 with an envelope.
C9_FailuresRecovered ==
    /\ serving
    /\ (cur = NoReq /\ backlog # <<>>) => ENABLED (AcceptDirect \/ AcceptProbe)
    /\ (Done(last) /\ Delivered(last)) => last.resp.exc = ""
    /\ (last.result.kind = "launch_error" /\ Delivered(last)) =>
            IsErrorEnvelope(last, MSG_ERROR \o last.result.err)
    /\ (IsHealthRequest(last.req) /\ Delivered(last)
            /\ ~(last.result.kind = "exit" /\ last.result.rc = 0
                    /\ json_loads(Cleaned(last.result.out)))) =>
            IsErrorEnvelope(last, last.resp.env.message)
    /\ (last.req = Req("GET", "/health?x=1") /\ Delivered(last)) =>
            last.resp.wire = Response(404, "application/json", NOT_FOUND_BODY)

C9_Witness ==
    /\ serving
    /\ last.result.kind = "launch_error"
    /\ Delivered(last)
    /\ StatusOf(last) = 500
    /\ backlog # <<>>

\* C10: a GET / or GET /health request starts the probe exactly once and
\* writes exactly one HTTP response, in every branch, also when an exception
\* is raised after the 200 status line has been sent.
C10_OneProbeOneResponse ==
    (Done(last) /\ IsHealthRequest(last.req)) =>
        /\ last.resp.nrun = 1
        /\ last.resp.nresp = 1
        /\ Cardinality(StatusLines(last)) <= 1

=============================================================================
